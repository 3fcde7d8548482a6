SPECIFICATION UsbLiveSpec
CONSTANTS
  Ids <- MCIds
  RETRY_COUNT = 3
  Prompt = TRUE
  MayExhaust = TRUE
  ReleaseFails = FALSE
PROPERTY DriveComesUp
