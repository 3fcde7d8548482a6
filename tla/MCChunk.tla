------------------------------ MODULE MCChunk ------------------------------
(* All drives and all transfers over 4-bit integers (U32 = 16), with frames of *)
(* 4 bytes. With U16 = 3 a transfer of at most 8 bytes has indices enough, one *)
(* of 9 to 12 bytes uses them up, and a longer one starts again at chunk 0.    *)
EXTENDS ChunkTransfer

AllGeometries == (0..15) \X (0..15)

\* Any transfer, those that pass 2^32 included.
AllRequests == (0..15) \X (0..15)
=============================================================================
