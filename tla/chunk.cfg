CONSTANTS
  MAX_PAYLOAD = 4
  U32 = 16
  U16 = 3
  Geometries <- AllGeometries
  Requests <- AllRequests
SPECIFICATION ChunkSpec
INVARIANTS ChunkTypeOK ChunksTile ChunkFits LegalTransferCompletes
\* A transfer ends.
CHECK_DEADLOCK FALSE
