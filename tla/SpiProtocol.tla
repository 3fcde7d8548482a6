---------------------------- MODULE SpiProtocol ----------------------------
(***************************************************************************)
(* The constant part of the SPI link: the header and its validation        *)
(* (spi_link/protocol.rs) and the arithmetic that cuts a request of        *)
(* nblocks blocks into chunks of at most MAX_PAYLOAD bytes                 *)
(* (SpiLink::compute_chunk in spi_link/transport.rs).                      *)
(*                                                                         *)
(* The 16 header bytes are abstracted to a record: the magic and version   *)
(* bytes are kept only as "is it a header" (the frame's kind), the cmd     *)
(* byte as its base command and its RESP_FLAG bit.                         *)
(***************************************************************************)
EXTENDS Integers, Sequences

CONSTANTS
  MAX_PAYLOAD,    \* bytes of block data in one frame (8192 in the code)
  U32             \* 2^32: the modulus of u32, and of usize on the ESP32-S3

ASSUME ProtocolConstants ==
  /\ MAX_PAYLOAD \in Nat \ {0}
  /\ U32 \in Nat
  /\ MAX_PAYLOAD < U32

\* Cmd::from_u8 yields None for every other byte, here "Unknown".
Cmd == {"GetStatus", "GetCapacity", "Read", "Write", "Flush"}
CmdByte == Cmd \cup {"Unknown"}

\* The esp_err_t values the link reports in arg0; ESP_FAIL stands for every
\* error a SCSI command can end with.
EspErr == {"ESP_OK", "ESP_FAIL", "ESP_ERR_INVALID_STATE", "ESP_ERR_INVALID_SIZE",
           "ESP_ERR_INVALID_ARG", "ESP_ERR_INVALID_CRC"}

\* `arg0' of a request is an lba and of a response a status, so the status has
\* a field of its own; `reserved' is the chunk index.
Header(cmd, seq, reserved, arg0, arg1) ==
  [cmd |-> cmd, resp |-> FALSE, seq |-> seq, reserved |-> reserved,
   arg0 |-> arg0, arg1 |-> arg1, status |-> "ESP_OK"]

\* Header::response_for, with the chunk index and arg1 that both arm_response
\* variants copy in afterwards.
response_for(req, status, arg1) ==
  [req EXCEPT !.resp = TRUE, !.arg0 = 0, !.arg1 = arg1, !.status = status]

-----------------------------------------------------------------------------
(* Frames on MOSI. What the slave finds in rx_dma when a transfer of the    *)
(* length it armed completes: a valid header, block data with a CRC32 that  *)
(* does or does not match, or bytes that are neither.                       *)

NoHeader == Header("Unknown", 0, 0, 0, 0)
HdrFrame(h) == [kind |-> "hdr", hdr |-> h, len |-> 0, data |-> << >>, crc |-> FALSE]
DataFrame(len, data, crc) ==
  [kind |-> "data", hdr |-> NoHeader, len |-> len, data |-> data, crc |-> crc]
Noise == [kind |-> "noise", hdr |-> NoHeader, len |-> 0, data |-> << >>, crc |-> FALSE]

\* Magic and version match. Data starting with the bytes "BK",1 is left out.
is_valid(frame) == frame.kind = "hdr"

\* cmd_base drops RESP_FLAG, so a response header decodes as its command.
cmd_enum(h) == h.cmd

\* Mutant: the trailer is not compared.
crc_unchecked(frame, len) == frame.kind = "data" /\ frame.len = len

\* spi_crc32 over the first len bytes equals the trailer: the transfer carried
\* exactly len bytes of data and their CRC arrived intact. A frame of another
\* kind or length leaves the trailer position with unrelated bytes.
crc_matches(frame, len) == frame.kind = "data" /\ frame.len = len /\ frame.crc

-----------------------------------------------------------------------------
(* compute_chunk. usize and u32 are both 32 bits wide: checked_mul fails at *)
(* U32, and the unchecked `lba_start + ...' wraps, as it does in the        *)
(* release profile, which has no overflow checks.                           *)

ChunkErr(e) == [status |-> e, lba |-> 0, nblocks |-> 0, len |-> 0]

\* Mutant: the last chunk only is cut to size.
unclipped(a, b) == b

Smaller(a, b) == IF a <= b THEN a ELSE b

\* Mutant: a chunk index past the request is not noticed.
past_request_unchecked(offset_bytes, total_bytes) == FALSE

past_request(offset_bytes, total_bytes) == offset_bytes >= total_bytes

\* Mutant: every chunk is placed at the start of the request.
chunk_lba_first(bs, lba_start, offset_bytes) == lba_start

chunk_lba(bs, lba_start, offset_bytes) == (lba_start + (offset_bytes \div bs)) % U32

\* Mutants: the end of the chunk is an inclusive bound; it is not compared at all.
beyond_drive_inclusive(bc, lba_i, nblocks_i) == lba_i + nblocks_i >= bc
beyond_drive_unchecked(bc, lba_i, nblocks_i) == lba_i + nblocks_i >= U32

\* checked_add fails, or the chunk ends behind the last block.
beyond_drive(bc, lba_i, nblocks_i) ==
  lba_i + nblocks_i >= U32 \/ lba_i + nblocks_i > bc

compute_chunk(bs, bc, lba_start, nblocks_total, chunk_idx) ==
  LET total_bytes  == nblocks_total * bs
      offset_bytes == chunk_idx * MAX_PAYLOAD
      chunk_len    == Smaller(MAX_PAYLOAD, total_bytes - offset_bytes)
      lba_i        == chunk_lba(bs, lba_start, offset_bytes)
      nblocks_i    == chunk_len \div bs
  IN  IF bs = 0 THEN ChunkErr("ESP_ERR_INVALID_STATE")
      ELSE IF bs > MAX_PAYLOAD THEN ChunkErr("ESP_ERR_INVALID_SIZE")
      ELSE IF MAX_PAYLOAD % bs # 0 THEN ChunkErr("ESP_ERR_INVALID_STATE")
      ELSE IF total_bytes >= U32 \/ offset_bytes >= U32
             THEN ChunkErr("ESP_ERR_INVALID_SIZE")
      ELSE IF past_request(offset_bytes, total_bytes) THEN ChunkErr("ESP_ERR_INVALID_ARG")
      ELSE IF chunk_len % bs # 0 THEN ChunkErr("ESP_ERR_INVALID_SIZE")
      ELSE IF bc = 0 THEN ChunkErr("ESP_ERR_INVALID_STATE")
      ELSE IF beyond_drive(bc, lba_i, nblocks_i) THEN ChunkErr("ESP_ERR_INVALID_ARG")
      ELSE [status |-> "ESP_OK", lba |-> lba_i, nblocks |-> nblocks_i, len |-> chunk_len]
=============================================================================
