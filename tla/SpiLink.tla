------------------------------ MODULE SpiLink ------------------------------
(***************************************************************************)
(* The SPI slave endpoint: the loop SpiLink::run of spi_link/transport.rs, *)
(* executed by the SPI task, and the block-device calls it makes on the    *)
(* global UsbMassStorage (usb_mass_storage/block_device.rs).               *)
(*                                                                         *)
(* One exchange is: a header transfer; for a Write a payload transfer; the *)
(* USB work; a response transfer. spi_slave_transmit is two steps, arming  *)
(* the peripheral (queued becomes TRUE) and, once the master has clocked   *)
(* the bus (Transfer, the master's move), waking up. The bus carries       *)
(* nothing while no transfer is armed: what the master sends is lost.      *)
(*                                                                         *)
(* The driver behind get_global_mass_storage() is seen through `usb'; the  *)
(* None branches answer exactly as a null handle does, so a null handle    *)
(* stands for both. The driver's own steps are module UsbDriver; here the  *)
(* main task attaches and detaches the drive between any two steps.        *)
(***************************************************************************)
EXTENDS SpiProtocol, FiniteSets

CONSTANTS
  Data,        \* contents of a block
  InitData,    \* what the drive holds at start
  DriveBs,     \* block size of the drive, in bytes
  DriveLast,   \* LBA of its last block
  XferFaults   \* the transfers that may fail: a subset of {"payload", "response"}

ASSUME DriveConstants ==
  /\ InitData \in Data
  /\ DriveBs \in Nat \ {0}
  /\ DriveLast \in Nat \ {0}
  /\ DriveLast < U32
  /\ XferFaults \subseteq {"payload", "response"}

VARIABLES
  pc,       \* where the SPI task is in run()
  ready,    \* level of the READY line
  queued,   \* a transfer is armed and the master has not clocked it yet
  rx,       \* rx_dma: the frame the last completed transfer delivered
  req,      \* the request header being served
  chunk,    \* what compute_chunk returned for it
  resp,     \* resp_buf, the staged response, and its copy in tx_dma
  usb,      \* the driver: handle (non-null), block_size, block_count
  disk      \* the blocks of the attached drive

slaveVars == <<pc, ready, queued, rx, req, chunk, resp, usb, disk>>

Lbas == 0..DriveLast

\* One response frame: header, block data (Read only) and the small payloads
\* of GetStatus and GetCapacity.
Response(hdr, data, info) == [hdr |-> hdr, data |-> data, info |-> info]
NoResponse == Response(NoHeader, << >>, << >>)

NoDrive == [handle |-> FALSE, block_size |-> 0, block_count |-> 0]
OpenDrive(bs, bc) == [handle |-> TRUE, block_size |-> bs, block_count |-> bc]

SlaveInit ==
  /\ pc = "hdr_arm"
  /\ ready = FALSE
  /\ queued = FALSE
  /\ rx = Noise
  /\ req = NoHeader
  /\ chunk = ChunkErr("ESP_OK")
  /\ resp = NoResponse
  /\ usb = NoDrive
  /\ disk = [l \in Lbas |-> InitData]

-----------------------------------------------------------------------------
(* Block device calls. Each yields the set of outcomes the drive allows.    *)

\* Mutant: the two fields of the answer are exchanged.
bd_refresh_capacity_swapped(u) ==
  IF ~u.handle THEN {[status |-> "ESP_ERR_INVALID_STATE", usb |-> u]}
  ELSE {[status |-> "ESP_OK", usb |-> OpenDrive(DriveLast, DriveBs)],
        [status |-> "ESP_FAIL", usb |-> u]}

\* scsi_cmd_read_capacity stores the LBA field of READ CAPACITY(10), which is
\* the last LBA, as the block count.
bd_refresh_capacity(u) ==
  IF ~u.handle THEN {[status |-> "ESP_ERR_INVALID_STATE", usb |-> u]}
  ELSE {[status |-> "ESP_OK", usb |-> OpenDrive(DriveBs, DriveLast)],
        [status |-> "ESP_FAIL", usb |-> u]}

bd_status(u) ==
  IF ~u.handle THEN {"NotPresent"}
  ELSE IF u.block_size = 0 \/ u.block_count = 0 THEN {"NotReady"}
  ELSE {"Ready", "NotReady"}

\* The checks bd_read_blocks and bd_write_blocks make before the SCSI command.
bd_check(u, lba, nblocks, len) ==
  LET end == Smaller(lba + nblocks, U32 - 1)       \* saturating_add
  IN  IF ~u.handle THEN "ESP_ERR_INVALID_STATE"
      ELSE IF nblocks = 0 THEN "ESP_ERR_INVALID_ARG"
      ELSE IF u.block_size = 0 \/ u.block_count = 0 THEN "ESP_ERR_INVALID_STATE"
      ELSE IF end > u.block_count THEN "ESP_ERR_INVALID_ARG"
      ELSE IF len # nblocks * u.block_size THEN "ESP_ERR_INVALID_ARG"
      ELSE "ESP_OK"

\* The first n of the blocks `data' stored from lba on.
Store(d, lba, n, data) ==
  [l \in DOMAIN d |-> IF lba <= l /\ l < lba + n THEN data[l - lba + 1] ELSE d[l]]

ensure_capacity_known(u) ==
  IF u.block_size = 0 \/ u.block_count = 0
  THEN {r.usb : r \in bd_refresh_capacity(u)}
  ELSE {u}

-----------------------------------------------------------------------------
(* The bus, clocked by the master.                                          *)

\* The master clocks frame f: it ends an armed transfer, or is lost.
Transfer(f) ==
  /\ queued' = FALSE
  /\ rx' = IF queued THEN f ELSE rx
  /\ UNCHANGED <<pc, ready, req, chunk, resp, usb, disk>>

\* What the master sees on MISO during that transfer: send_response copied the
\* response to tx_dma, a payload transfer clocks out the cleared tx_dma. (During
\* a header transfer tx_dma still holds the last response; nothing reads it.)
Miso == IF queued /\ pc = "rsp_wait" THEN resp ELSE NoResponse

-----------------------------------------------------------------------------
(* The steps of run().                                                      *)

Goto(from, to) == pc = from /\ pc' = to

\* arm_response, arm_response_with_arg1, arm_response_from_block_buf.
Stage(r, status, arg1, data, info) ==
  resp' = Response(response_for(r, status, arg1), data, info)

\* Top of the loop: arm the header transfer, READY stays low. The locals of the
\* last iteration are gone and resp_buf is dead until the next arm_response.
HeaderArm ==
  /\ Goto("hdr_arm", "hdr_wait")
  /\ queued' = TRUE
  /\ req' = NoHeader
  /\ chunk' = ChunkErr("ESP_OK")
  /\ resp' = NoResponse
  /\ UNCHANGED <<ready, rx, usb, disk>>

HeaderInvalid ==
  /\ Goto("hdr_wait", "hdr_arm")
  /\ ~queued /\ ~is_valid(rx)
  /\ UNCHANGED <<ready, queued, rx, req, chunk, resp, usb, disk>>

\* A header was received that is valid and carries command c.
Received(c) ==
  /\ ~queued /\ is_valid(rx) /\ cmd_enum(rx.hdr) = c
  /\ req' = rx.hdr

UnknownCmd ==
  /\ Goto("hdr_wait", "respond")
  /\ Received("Unknown")
  /\ Stage(rx.hdr, "ESP_ERR_INVALID_ARG", 0, << >>, << >>)
  /\ UNCHANGED <<ready, queued, rx, chunk, usb, disk>>

GetStatus ==
  /\ Goto("hdr_wait", "respond")
  /\ Received("GetStatus")
  /\ \E s \in bd_status(usb) : Stage(rx.hdr, "ESP_OK", 0, << >>, <<s>>)
  /\ UNCHANGED <<ready, queued, rx, chunk, usb, disk>>

GetCapacity ==
  /\ Goto("hdr_wait", "respond")
  /\ Received("GetCapacity")
  /\ \E r \in bd_refresh_capacity(usb) :
       /\ usb' = r.usb
       /\ IF r.status = "ESP_OK"
          THEN Stage(rx.hdr, "ESP_OK", 8, << >>,
                     <<r.usb.block_size, r.usb.block_count>>)
          ELSE Stage(rx.hdr, r.status, 0, << >>, << >>)
  /\ UNCHANGED <<ready, queued, rx, chunk, disk>>

Flush ==
  /\ Goto("hdr_wait", "respond")
  /\ Received("Flush")
  /\ Stage(rx.hdr, "ESP_OK", 0, << >>, << >>)
  /\ UNCHANGED <<ready, queued, rx, chunk, usb, disk>>

ChunkOf(u, h) ==
  compute_chunk(u.block_size, u.block_count, h.arg0, h.arg1, h.reserved)

\* Read, up to compute_chunk.
ReadBegin ==
  /\ pc = "hdr_wait"
  /\ Received("Read")
  /\ usb' \in ensure_capacity_known(usb)
  /\ chunk' = ChunkOf(usb', rx.hdr)
  /\ IF chunk'.status = "ESP_OK"
     THEN pc' = "bd_read" /\ resp' = resp
     ELSE pc' = "respond" /\ Stage(rx.hdr, chunk'.status, 0, << >>, << >>)
  /\ UNCHANGED <<ready, queued, rx, disk>>

\* Mutant: every chunk is read from the start of the request.
ReadBlocks_first ==
  /\ Goto("bd_read", "respond")
  /\ Stage(req, "ESP_OK", chunk.len,
           [i \in 1..chunk.nblocks |-> disk[req.arg0 + i - 1]], << >>)
  /\ UNCHANGED <<ready, queued, rx, req, chunk, usb, disk>>

\* bd_read_blocks into block_buf, staged with its CRC.
ReadBlocks ==
  /\ Goto("bd_read", "respond")
  /\ LET status == bd_check(usb, chunk.lba, chunk.nblocks, chunk.len)
         blocks == [i \in 1..chunk.nblocks |-> disk[chunk.lba + i - 1]]
     IN  \/ /\ status = "ESP_OK"
            /\ Stage(req, "ESP_OK", chunk.len, blocks, << >>)
         \/ /\ status = "ESP_OK"
            /\ Stage(req, "ESP_FAIL", 0, << >>, << >>)
         \/ /\ status # "ESP_OK"
            /\ Stage(req, status, 0, << >>, << >>)
  /\ UNCHANGED <<ready, queued, rx, req, chunk, usb, disk>>

\* Mutant: READY is not raised for the payload.
WriteBegin_silent ==
  /\ Goto("hdr_wait", "pay_arm")
  /\ Received("Write")
  /\ usb' \in ensure_capacity_known(usb)
  /\ chunk' = ChunkOf(usb', rx.hdr)
  /\ UNCHANGED <<ready, queued, rx, resp, disk>>

\* Write, up to raising READY for the payload. When compute_chunk fails the
\* payload is still taken in, to stay in step with the master.
WriteBegin ==
  /\ Goto("hdr_wait", "pay_arm")
  /\ Received("Write")
  /\ usb' \in ensure_capacity_known(usb)
  /\ chunk' = ChunkOf(usb', rx.hdr)
  /\ ready' = TRUE
  /\ UNCHANGED <<queued, rx, resp, disk>>

PayloadArm ==
  /\ Goto("pay_arm", "pay_wait")
  /\ queued' = TRUE
  /\ UNCHANGED <<ready, rx, req, chunk, resp, usb, disk>>

\* The payload transfer is over (or failed) and the chunk was refused: answer
\* with compute_chunk's error whatever came in.
PayloadRefused ==
  /\ \/ Goto("pay_wait", "respond") /\ ~queued
     \/ Goto("pay_arm", "respond") /\ "payload" \in XferFaults
  /\ chunk.status # "ESP_OK"
  /\ ready' = FALSE
  /\ Stage(req, chunk.status, 0, << >>, << >>)
  /\ UNCHANGED <<queued, rx, req, chunk, usb, disk>>

\* spi_slave_xfer failed: back to the header without any response.
PayloadFailed ==
  /\ Goto("pay_arm", "hdr_arm")
  /\ "payload" \in XferFaults
  /\ chunk.status = "ESP_OK"
  /\ ready' = FALSE
  /\ UNCHANGED <<queued, rx, req, chunk, resp, usb, disk>>

PayloadCrcMismatch ==
  /\ Goto("pay_wait", "respond")
  /\ ~queued
  /\ chunk.status = "ESP_OK" /\ ~crc_matches(rx, chunk.len)
  /\ ready' = FALSE
  /\ Stage(req, "ESP_ERR_INVALID_CRC", 0, << >>, << >>)
  /\ UNCHANGED <<queued, rx, req, chunk, usb, disk>>

PayloadOk ==
  /\ Goto("pay_wait", "bd_write")
  /\ ~queued
  /\ chunk.status = "ESP_OK" /\ crc_matches(rx, chunk.len)
  /\ ready' = FALSE
  /\ UNCHANGED <<queued, rx, req, chunk, resp, usb, disk>>

\* Mutant: the result of bd_write_blocks is dropped.
WriteBlocks_unchecked ==
  /\ Goto("bd_write", "respond")
  /\ \E n \in 0..chunk.nblocks : disk' = Store(disk, chunk.lba, n, rx.data)
  /\ Stage(req, "ESP_OK", chunk.len, << >>, << >>)
  /\ UNCHANGED <<ready, queued, rx, req, chunk, usb>>

\* bd_write_blocks out of rx_dma. A SCSI error may leave any prefix written.
WriteBlocks ==
  /\ Goto("bd_write", "respond")
  /\ LET status == bd_check(usb, chunk.lba, chunk.nblocks, chunk.len)
     IN  \/ /\ status = "ESP_OK"
            /\ disk' = Store(disk, chunk.lba, chunk.nblocks, rx.data)
            /\ Stage(req, "ESP_OK", chunk.len, << >>, << >>)
         \/ /\ status = "ESP_OK"
            /\ \E n \in 0..chunk.nblocks :
                 disk' = Store(disk, chunk.lba, n, rx.data)
            /\ Stage(req, "ESP_FAIL", 0, << >>, << >>)
         \/ /\ status # "ESP_OK"
            /\ disk' = disk
            /\ Stage(req, status, 0, << >>, << >>)
  /\ UNCHANGED <<ready, queued, rx, req, chunk, usb>>

\* send_response: copy to tx_dma, raise READY, arm, then lower READY.
ResponseRaise ==
  /\ Goto("respond", "rsp_arm")
  /\ ready' = TRUE
  /\ UNCHANGED <<queued, rx, req, chunk, resp, usb, disk>>

ResponseArm ==
  /\ Goto("rsp_arm", "rsp_wait")
  /\ queued' = TRUE
  /\ UNCHANGED <<ready, rx, req, chunk, resp, usb, disk>>

\* The result of this spi_slave_xfer is ignored.
ResponseDone ==
  /\ \/ Goto("rsp_wait", "hdr_arm") /\ ~queued
     \/ Goto("rsp_arm", "hdr_arm") /\ "response" \in XferFaults
  /\ ready' = FALSE
  /\ UNCHANGED <<queued, rx, req, chunk, resp, usb, disk>>

SlaveStep ==
  \/ HeaderArm \/ HeaderInvalid \/ UnknownCmd
  \/ GetStatus \/ GetCapacity \/ Flush
  \/ ReadBegin \/ ReadBlocks
  \/ WriteBegin \/ PayloadArm \/ PayloadRefused \/ PayloadFailed
  \/ PayloadCrcMismatch \/ PayloadOk \/ WriteBlocks
  \/ ResponseRaise \/ ResponseArm \/ ResponseDone

-----------------------------------------------------------------------------
(* The main task's effect on the driver, as the SPI task can observe it.    *)

\* try_open_and_mount succeeded; its bd_refresh_capacity may fail, and leaves
\* the zeros that the CONNECTED event stored.
UsbAttach ==
  /\ ~usb.handle
  /\ usb' \in {OpenDrive(DriveBs, DriveLast), OpenDrive(0, 0)}
  /\ UNCHANGED <<pc, ready, queued, rx, req, chunk, resp, disk>>

\* The DISCONNECTED event: close_device, then the capacity is zeroed.
UsbDetach ==
  /\ usb.handle
  /\ usb' = NoDrive
  /\ UNCHANGED <<pc, ready, queued, rx, req, chunk, resp, disk>>
=============================================================================
