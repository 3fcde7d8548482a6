--------------------------- MODULE ChunkTransfer ---------------------------
(***************************************************************************)
(* One logical transfer of nblocks blocks from lba on, cut by the master   *)
(* into chunks 0, 1, 2, ... ("chunk_idx (0,1,2,...) for multi-block        *)
(* chunking", protocol.rs). Each chunk is one Read or Write request whose  *)
(* place the slave computes on its own with SpiLink::compute_chunk: it     *)
(* keeps no state between chunks. The question is whether the places it    *)
(* computes one by one add up to the transfer. The index is a u16 of the   *)
(* header, so behind chunk 65535 comes chunk 0 again.                      *)
(***************************************************************************)
EXTENDS SpiProtocol

CONSTANTS
  U16,          \* 2^16: the modulus of the header field with the chunk index
  Geometries,   \* the drives: <<block_size, block_count>> as the driver cached them
  Requests      \* the transfers: <<lba, nblocks>>

ASSUME ChunkConstants ==
  /\ U16 \in Nat \ {0}
  /\ Geometries \subseteq (0..(U32 - 1)) \X (0..(U32 - 1))
  /\ Requests \subseteq (0..(U32 - 1)) \X (0..(U32 - 1))

VARIABLES
  bs, bc,      \* the drive
  lba, n,      \* the transfer
  idx,         \* index of the next chunk, as the header carries it
  moved,       \* blocks moved so far, counted with repetition
  blocks,      \* the blocks that were moved
  last,        \* what compute_chunk returned last
  over         \* a chunk was refused

cvars == <<bs, bc, lba, n, idx, moved, blocks, last, over>>

ChunkInit ==
  /\ \E g \in Geometries : bs = g[1] /\ bc = g[2]
  /\ \E r \in Requests : lba = r[1] /\ n = r[2]
  /\ idx = 0
  /\ moved = 0
  /\ blocks = {}
  /\ last = ChunkErr("ESP_OK")
  /\ over = FALSE

\* The range of blocks a chunk covers.
ChunkBlocks(c) == c.lba..(c.lba + c.nblocks - 1)

\* The master asks for the next chunk until it is refused one, but not beyond
\* the first chunk after the transfer.
Asks == ~over /\ moved <= n

\* The master requests chunk idx and the slave serves it.
ChunkServed ==
  LET c == compute_chunk(bs, bc, lba, n, idx)
  IN  /\ Asks
      /\ c.status = "ESP_OK"
      /\ last' = c
      /\ moved' = moved + c.nblocks
      /\ blocks' = blocks \cup ChunkBlocks(c)
      /\ idx' = (idx + 1) % U16
      /\ UNCHANGED <<bs, bc, lba, n, over>>

\* The slave refuses it, which ends the transfer.
ChunkRefused ==
  LET c == compute_chunk(bs, bc, lba, n, idx)
  IN  /\ Asks
      /\ c.status # "ESP_OK"
      /\ last' = c
      /\ over' = TRUE
      /\ UNCHANGED <<bs, bc, lba, n, idx, moved, blocks>>

ChunkNext == ChunkServed \/ ChunkRefused

ChunkSpec == ChunkInit /\ [][ChunkNext]_cvars

-----------------------------------------------------------------------------
\* The variables have their types.
ChunkTypeOK ==
  /\ bs \in Nat /\ bc \in Nat /\ lba \in Nat /\ n \in Nat
  /\ idx \in 0..(U16 - 1) /\ moved \in Nat
  /\ last \in [status : EspErr, lba : Nat, nblocks : Nat, len : Nat]
  /\ over \in BOOLEAN

\* Every chunk of the transfer, and the one asked for after it, has an index of
\* its own: at most 65535 * 8192 bytes in the code, 8 KiB short of 512 MiB.
Indexable == n * bs <= (U16 - 1) * MAX_PAYLOAD

\* The chunks tile the transfer from its start: the blocks moved are exactly the
\* first `moved' blocks of the range, so no block is skipped, moved twice or out
\* of place. A transfer too long for the index moves blocks again from its start
\* on, but like any other none outside itself or the drive (compute_chunk).
ChunksTile ==
  /\ Indexable => moved <= n /\ blocks = lba..(lba + moved - 1)
  /\ \A b \in blocks : lba <= b /\ b < lba + n /\ b < bc

\* A served chunk is a whole number of blocks that fits block_buf and a frame,
\* with the length bd_read_blocks and bd_write_blocks insist on.
ChunkFits ==
  last.status = "ESP_OK" => last.len = last.nblocks * bs /\ last.len <= MAX_PAYLOAD

\* The slave can transfer this drive in whole frames, and index all of them.
Transferable ==
  /\ bs > 0 /\ bc > 0 /\ bs <= MAX_PAYLOAD /\ MAX_PAYLOAD % bs = 0 /\ n * bs < U32
  /\ Indexable

\* A transfer that lies inside the drive is refused only at its end: by then
\* every block of it was moved (compute_chunk never refuses a legal chunk).
LegalTransferCompletes == over /\ Transferable /\ lba + n <= bc => moved = n
=============================================================================
