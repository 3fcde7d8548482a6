-------------------------- MODULE SpiSystemProofs --------------------------
(***************************************************************************)
(* The link keeps the drive's contents true to what the master was told,   *)
(* for every set of requests, drive, payload size and sequence number      *)
(* width, as long as the master does not give up a request.                *)
(***************************************************************************)
EXTENDS SpiSystem, SpiProtocolProofs, TLAPS

Headers == [cmd : CmdByte, resp : BOOLEAN, seq : 0..(SeqMod - 1), reserved : Nat,
            arg0 : Nat, arg1 : Nat, status : EspErr]
Drives == [handle : BOOLEAN, block_size : {0, DriveBs}, block_count : {0, DriveLast}]

\* The fields of a request the master may issue.
LEMMA OpFacts ==
  ASSUME NEW o \in Ops
  PROVE  /\ o.cmd \in CmdByte
         /\ o.arg0 \in Nat /\ o.arg1 \in Nat /\ o.reserved \in Nat
         /\ o.arg0 + o.arg1 <= U32
         /\ o.data \in Seq(Data)
         /\ o.cmd = "Write" /\ OpCount(o) >= 1 => Len(o.data) = OpCount(o)
  BY MasterConstants DEF IsOp

\* The header of a request, and the frames the master puts on the wire, are
\* well formed.
LEMMA FramesTyped ==
  ASSUME NEW o \in Ops, NEW s \in 0..(SeqMod - 1), NEW intact \in BOOLEAN
  PROVE  /\ HeaderOf(o, s) \in Headers
         /\ HdrFrame(HeaderOf(o, s)) \in Frames
         /\ PayloadOf(o, intact) \in Frames
         /\ Noise \in Frames
<1>1. NoHeader \in Headers
  BY MasterConstants DEF NoHeader, Header, Headers, CmdByte, EspErr
<1>2. HeaderOf(o, s) \in Headers
  BY OpFacts DEF HeaderOf, Header, Headers, EspErr
<1>3. << >> \in Seq(Data)
  OBVIOUS
<1>4. HdrFrame(HeaderOf(o, s)) \in Frames
  BY <1>2, <1>3 DEF HdrFrame, Frames, Headers
<1>5. Noise \in Frames
  BY <1>1, <1>3 DEF Noise, Frames, Headers
<1>6. PayloadOf(o, intact) \in Frames
  <2>1. o.data \in Seq(Data) /\ Len(o.data) \in Nat
    BY OpFacts
  <2>2. Len(o.data) * DriveBs \in Nat
    BY <2>1, DriveConstants
  <2>3. [i \in 1..Len(o.data) |-> Junk] \in Seq(Data)
    BY <2>1, MasterConstants
  <2> QED BY <1>1, <2>1, <2>2, <2>3 DEF PayloadOf, DataFrame, Frames, Headers
<1> QED BY <1>2, <1>4, <1>5, <1>6

\* Clocking a well-formed frame keeps rx well formed.
LEMMA TransferTyped ==
  ASSUME TypeOK, NEW f \in Frames, Transfer(f)
  PROVE  /\ rx' \in Frames /\ queued' \in BOOLEAN
         /\ pc' = pc /\ ready' = ready /\ usb' = usb /\ disk' = disk
  BY DEF Transfer, TypeOK

\* Refreshing the capacity leaves a driver state of the right type.
LEMMA CapacityTyped ==
  ASSUME NEW u \in Drives
  PROVE  /\ \A r \in bd_refresh_capacity(u) : r.usb \in Drives
         /\ \A v \in ensure_capacity_known(u) : v \in Drives
<1>1. OpenDrive(DriveBs, DriveLast) \in Drives
  BY DEF OpenDrive, Drives
<1>2. ASSUME NEW r \in bd_refresh_capacity(u)
      PROVE  r.usb \in {u, OpenDrive(DriveBs, DriveLast)}
  BY DEF bd_refresh_capacity
<1>3. ASSUME NEW r \in bd_refresh_capacity(u) PROVE r.usb \in Drives
  BY <1>1, <1>2
<1>4. ASSUME NEW v \in ensure_capacity_known(u) PROVE v \in Drives
  <2>1. v = u \/ \E r \in bd_refresh_capacity(u) : v = r.usb
    BY Zenon DEF ensure_capacity_known
  <2> QED BY <1>3, <2>1
<1> QED BY <1>3, <1>4

\* The place and number of blocks of a request are integers.
LEMMA OpTyped ==
  ASSUME NEW o \in Ops
  PROVE  OpFirst(o) \in Nat /\ OpCount(o) \in Int
<1>1. PerFrame \in Nat
  BY ProtocolConstants, DriveConstants DEF PerFrame
<1>2. o.reserved * PerFrame \in Nat
  BY <1>1, OpFacts
<1> QED BY <1>1, <1>2, OpFacts DEF OpFirst, OpCount, Smaller

\* Storing blocks of a request on the drive.
LEMMA StoreFacts ==
  ASSUME NEW d \in [Lbas -> Data], NEW o \in Ops, o.cmd = "Write", InRange(o),
         NEW k \in 0..OpCount(o)
  PROVE  /\ Store(d, OpFirst(o), k, o.data) \in [Lbas -> Data]
         /\ \A l \in Lbas :
              \/ Store(d, OpFirst(o), k, o.data)[l] = d[l]
              \/ l \in OpBlocks(o) /\ Store(d, OpFirst(o), k, o.data)[l] = OpData(o, l)
         /\ k = OpCount(o) =>
              \A l \in OpBlocks(o) :
                l \in Lbas /\ Store(d, OpFirst(o), k, o.data)[l] = OpData(o, l)
<1>2. OpFirst(o) \in Nat
  BY OpTyped
<1>3. OpCount(o) \in Nat /\ OpCount(o) >= 1 /\ OpFirst(o) + OpCount(o) <= DriveLast
  BY OpTyped DEF InRange
<1>4. o.data \in Seq(Data) /\ Len(o.data) = OpCount(o)
  BY <1>3, OpFacts
<1>5. OpBlocks(o) = OpFirst(o)..(OpFirst(o) + OpCount(o) - 1)
  BY DEF OpBlocks
<1> DEFINE e == Store(d, OpFirst(o), k, o.data)
<1>6. ASSUME NEW l \in Lbas
      PROVE  e[l] = IF OpFirst(o) <= l /\ l < OpFirst(o) + k
                    THEN o.data[l - OpFirst(o) + 1] ELSE d[l]
  BY DEF Store
<1>7. ASSUME NEW l \in Lbas, OpFirst(o) <= l, l < OpFirst(o) + k
      PROVE  l - OpFirst(o) + 1 \in 1..Len(o.data) /\ l \in OpBlocks(o)
  BY <1>2, <1>3, <1>4, <1>5, DriveConstants DEF Lbas
<1>8. e \in [Lbas -> Data]
  <2>1. ASSUME NEW l \in Lbas PROVE e[l] \in Data
    BY <1>4, <1>6, <1>7
  <2>2. e = [l \in Lbas |-> e[l]]
    BY DEF Store
  <2> QED BY <2>1, <2>2
<1>9. ASSUME NEW l \in Lbas
      PROVE  e[l] = d[l] \/ (l \in OpBlocks(o) /\ e[l] = OpData(o, l))
  BY <1>6, <1>7 DEF OpData
<1>10. ASSUME k = OpCount(o), NEW l \in OpBlocks(o)
       PROVE  l \in Lbas /\ e[l] = OpData(o, l)
  <2>1. l \in Lbas /\ OpFirst(o) <= l /\ l < OpFirst(o) + k
    BY <1>2, <1>3, <1>5, <1>10, DriveConstants DEF Lbas
  <2> QED BY <1>6, <2>1 DEF OpData
<1> QED BY <1>8, <1>9, <1>10

\* The chunk compute_chunk accepts for a request is the one the request means:
\* its first block, its number of blocks, inside the drive.
LEMMA ChunkMeansOp ==
  ASSUME NEW o \in Ops, NEW s, NEW u \in Drives,
         ChunkOf(u, HeaderOf(o, s)).status = "ESP_OK"
  PROVE  /\ InRange(o)
         /\ ChunkOf(u, HeaderOf(o, s)).lba = OpFirst(o)
         /\ ChunkOf(u, HeaderOf(o, s)).nblocks = OpCount(o)
<1> DEFINE r == ChunkOf(u, HeaderOf(o, s))
<1>1. u.block_size \in {0, DriveBs} /\ u.block_count \in {0, DriveLast}
      /\ u.block_size \in Nat /\ u.block_count \in Nat
  BY DriveConstants DEF Drives
<1>2. o.arg0 \in Nat /\ o.arg1 \in Nat /\ o.reserved \in Nat /\ o.arg0 + o.arg1 <= U32
  BY OpFacts
<1>3. r = compute_chunk(u.block_size, u.block_count, o.arg0, o.arg1, o.reserved)
  BY DEF ChunkOf, HeaderOf, Header
<1>0. r.status = "ESP_OK"
  OBVIOUS
<1> HIDE DEF r
<1>4. /\ u.block_size > 0 /\ u.block_size <= MAX_PAYLOAD /\ MAX_PAYLOAD % u.block_size = 0
      /\ o.reserved * Per(u.block_size) < o.arg1
      /\ r.nblocks = Smaller(Per(u.block_size), o.arg1 - o.reserved * Per(u.block_size))
      /\ r.nblocks \in Nat \ {0}
      /\ r.lba = (o.arg0 + o.reserved * Per(u.block_size)) % U32 /\ r.lba \in Nat
      /\ r.lba + r.nblocks <= u.block_count
  BY <1>1, <1>2, <1>3, <1>0, ServedChunk
<1>5. u.block_size = DriveBs /\ Per(u.block_size) = PerFrame
  BY <1>1, <1>4 DEF Per, PerFrame
<1>6. u.block_count = DriveLast
  BY <1>1, <1>4
<1>7. PerFrame \in Nat /\ o.reserved * PerFrame \in Nat
  BY <1>2, ProtocolConstants, DriveConstants DEF PerFrame
<1>8. r.lba = o.arg0 + o.reserved * PerFrame
  <2>1. o.arg0 + o.reserved * PerFrame < U32
    BY <1>2, <1>4, <1>5, <1>7, ProtocolConstants
  <2>2. PICK x \in Nat : x = o.arg0 + o.reserved * PerFrame
    BY <1>2, <1>7
  <2>3. x % U32 = x
    BY <2>1, <2>2, ProtocolConstants, SmallMod
  <2> QED BY <1>4, <1>5, <2>2, <2>3
<1>9. r.lba = OpFirst(o) /\ r.nblocks = OpCount(o)
  BY <1>4, <1>5, <1>8 DEF OpFirst, OpCount
<1>10. InRange(o)
  BY <1>4, <1>6, <1>9 DEF InRange
<1> QED BY <1>9, <1>10 DEF r

-----------------------------------------------------------------------------
(* The invariant. StoreIntegrity alone is not inductive: that a Write lands *)
(* on its own blocks with its own data, and that an ESP_OK is only ever     *)
(* staged for the request the master still waits on, is InStep.             *)

SysInv == TypeOK /\ InStep /\ StoreIntegrity

\* It holds initially.
LEMMA InitInv == SystemInit => SysInv
<1> SUFFICES ASSUME SystemInit PROVE SysInv
  OBVIOUS
<1>1. TypeOK
  <2>1. Noise \in Frames
    BY MasterConstants, FramesTyped DEF SystemInit
  <2>2. usb \in Drives
    BY DEF SystemInit, SlaveInit, NoDrive, Drives
  <2>3. disk \in [Lbas -> Data] /\ shadow \in [Lbas -> SUBSET Data] /\ mseq \in 0..(SeqMod - 1)
    BY MasterConstants, DriveConstants DEF SystemInit, SlaveInit
  <2>4. pc = "hdr_arm" /\ ready = FALSE /\ queued = FALSE /\ rx = Noise /\ mpc = "idle" /\ op \in Ops
    BY DEF SystemInit, SlaveInit
  <2> QED BY <2>1, <2>2, <2>3, <2>4 DEF TypeOK, Drives
<1>2. InStep
  BY DEF SystemInit, SlaveInit, InStep, ServesCurrent, ChunkIsOp, PayloadIsOp, AnswerIsTrue,
         ShadowHasOp, Serving
<1>3. StoreIntegrity
  BY DEF SystemInit, SlaveInit, StoreIntegrity
<1> QED BY <1>1, <1>2, <1>3 DEF SysInv

\* A step of the slave that leaves the drive's blocks alone disturbs neither the
\* history nor the types of what it does not touch.
LEMMA QuietStep ==
  ASSUME SysInv, UNCHANGED masterVars, disk' = disk, rx' = rx,
         pc' \in {"hdr_arm", "hdr_wait", "bd_read", "pay_arm", "pay_wait", "bd_write",
                  "respond", "rsp_arm", "rsp_wait"},
         ready' \in BOOLEAN, queued' \in BOOLEAN, usb' \in Drives
  PROVE  TypeOK' /\ ShadowHasOp' /\ StoreIntegrity'
<1>1. TypeOK'
  BY DEF SysInv, TypeOK, masterVars, Drives
<1>2. ShadowHasOp' /\ StoreIntegrity'
  BY DEF SysInv, InStep, ShadowHasOp, StoreIntegrity, masterVars, OpBlocks, OpData, InRange,
         OpFirst, OpCount
<1> QED BY <1>1, <1>2

\* The steps that only move between the phases of an exchange.
LEMMA PhaseSteps ==
  ASSUME SysInv, UNCHANGED masterVars,
         \/ HeaderArm \/ HeaderInvalid \/ PayloadArm \/ PayloadFailed \/ PayloadOk
         \/ ResponseRaise \/ ResponseArm \/ ResponseDone
  PROVE  SysInv'
<1>1. usb \in Drives /\ ready \in BOOLEAN /\ queued \in BOOLEAN
  BY DEF SysInv, TypeOK, Drives
<1>2. TypeOK' /\ ShadowHasOp' /\ StoreIntegrity'
  BY <1>1, QuietStep DEF HeaderArm, HeaderInvalid, PayloadArm, PayloadFailed, PayloadOk,
     ResponseRaise, ResponseArm, ResponseDone, Goto
<1>3. op' = op /\ mseq' = mseq /\ mpc' = mpc /\ shadow' = shadow
  BY DEF masterVars
<1>4. ServesCurrent'
  BY <1>3 DEF SysInv, InStep, ServesCurrent, Serving, HeaderArm, HeaderInvalid, PayloadArm,
     PayloadFailed, PayloadOk, ResponseRaise, ResponseArm, ResponseDone, Goto, HeaderOf
<1>5. ChunkIsOp'
  BY <1>3 DEF SysInv, InStep, ChunkIsOp, HeaderArm, HeaderInvalid, PayloadArm,
     PayloadFailed, PayloadOk, ResponseRaise, ResponseArm, ResponseDone, Goto
<1>6. PayloadIsOp'
  BY <1>3 DEF SysInv, InStep, PayloadIsOp, HeaderArm, HeaderInvalid, PayloadArm, crc_matches,
     PayloadFailed, PayloadOk, ResponseRaise, ResponseArm, ResponseDone, Goto
<1>7. AnswerIsTrue'
  BY <1>3 DEF SysInv, InStep, AnswerIsTrue, Serving, HeaderArm, HeaderInvalid, PayloadArm,
     PayloadFailed, PayloadOk, ResponseRaise, ResponseArm, ResponseDone, Goto
<1> QED BY <1>2, <1>4, <1>5, <1>6, <1>7 DEF SysInv, InStep

\* A header that reached the slave is the current request's.
LEMMA ReceivedIsOp ==
  ASSUME SysInv, pc = "hdr_wait", NEW c, Received(c)
  PROVE  mpc # "idle" /\ req' = HeaderOf(op, mseq) /\ rx.hdr = HeaderOf(op, mseq)
         /\ op.cmd = c /\ ~queued
  BY DEF SysInv, InStep, ServesCurrent, Received, HeaderOf, Header, cmd_enum

\* A staged response carries the status and data it was staged with.
LEMMA Staged ==
  ASSUME NEW r, NEW st, NEW arg1, NEW data, NEW info,
         r = HeaderOf(op, mseq), Stage(r, st, arg1, data, info)
  PROVE  resp'.hdr.status = st /\ resp'.data = data
  BY DEF Stage, Response, response_for, HeaderOf, Header

\* The commands without blocks.
LEMMA CommandSteps ==
  ASSUME SysInv, UNCHANGED masterVars, UnknownCmd \/ GetStatus \/ GetCapacity \/ Flush
  PROVE  SysInv'
<1> USE DEF Goto
<1>1. pc = "hdr_wait" /\ pc' = "respond" /\ disk' = disk /\ rx' = rx /\ ready' = ready
      /\ queued' = queued
  BY DEF UnknownCmd, GetStatus, GetCapacity, Flush
<1>2. op' = op /\ mseq' = mseq /\ mpc' = mpc /\ shadow' = shadow
  BY DEF masterVars
<1>3. mpc # "idle" /\ req' = HeaderOf(op, mseq) /\ ~queued
      /\ op.cmd \in {"Unknown", "GetStatus", "GetCapacity", "Flush"}
  BY <1>1, ReceivedIsOp DEF UnknownCmd, GetStatus, GetCapacity, Flush
<1>4. usb' \in Drives
  <2>1. usb \in Drives
    BY DEF SysInv, TypeOK, Drives
  <2> QED BY <2>1, CapacityTyped DEF UnknownCmd, GetStatus, GetCapacity, Flush
<1>5. TypeOK' /\ ShadowHasOp' /\ StoreIntegrity'
  <2>1. ready \in BOOLEAN /\ queued \in BOOLEAN
    BY DEF SysInv, TypeOK
  <2> QED BY <1>1, <1>4, <2>1, QuietStep
<1>6. ServesCurrent'
  BY <1>1, <1>2, <1>3 DEF ServesCurrent, Serving, HeaderOf
<1>7. ChunkIsOp' /\ PayloadIsOp'
  BY <1>1 DEF ChunkIsOp, PayloadIsOp
<1>8. AnswerIsTrue'
  BY <1>2, <1>3 DEF AnswerIsTrue
<1> QED BY <1>5, <1>6, <1>7, <1>8 DEF SysInv, InStep

\* The beginning of a Read or a Write: the chunk is the request's.
LEMMA BeginSteps ==
  ASSUME SysInv, UNCHANGED masterVars, ReadBegin \/ WriteBegin
  PROVE  SysInv'
<1>1. pc = "hdr_wait" /\ disk' = disk /\ rx' = rx /\ queued' = queued
      /\ usb' \in ensure_capacity_known(usb) /\ chunk' = ChunkOf(usb', rx.hdr)
      /\ pc' \in {"bd_read", "pay_arm", "respond"} /\ ready' \in {ready, TRUE}
  BY DEF ReadBegin, WriteBegin, Goto
<1>2. op' = op /\ mseq' = mseq /\ mpc' = mpc /\ shadow' = shadow
  BY DEF masterVars
<1>3. mpc # "idle" /\ req' = HeaderOf(op, mseq) /\ rx.hdr = HeaderOf(op, mseq) /\ ~queued
  BY <1>1, ReceivedIsOp DEF ReadBegin, WriteBegin
<1>4. usb' \in Drives
  <2>1. usb \in Drives
    BY DEF SysInv, TypeOK, Drives
  <2> QED BY <1>1, <2>1, CapacityTyped
<1>5. TypeOK' /\ ShadowHasOp' /\ StoreIntegrity'
  <2>1. ready \in BOOLEAN /\ queued \in BOOLEAN
    BY DEF SysInv, TypeOK
  <2> QED BY <1>1, <1>4, <2>1, QuietStep
<1>6. ServesCurrent'
  BY <1>1, <1>2, <1>3 DEF ServesCurrent, Serving, HeaderOf
<1>7. ASSUME chunk'.status = "ESP_OK"
      PROVE  InRange(op) /\ chunk'.lba = OpFirst(op) /\ chunk'.nblocks = OpCount(op)
  <2>1. op \in Ops
    BY DEF SysInv, TypeOK
  <2> QED BY <1>1, <1>3, <1>4, <1>7, <2>1, ChunkMeansOp
<1>8. /\ pc' = "bd_read" => op.cmd = "Read" /\ chunk'.status = "ESP_OK"
      /\ pc' = "pay_arm" => op.cmd = "Write"
      /\ pc' = "respond" => Stage(rx.hdr, chunk'.status, 0, << >>, << >>)
                            /\ chunk'.status # "ESP_OK"
  BY <1>1, ReceivedIsOp DEF ReadBegin, WriteBegin, Goto
<1>9. ChunkIsOp'
  BY <1>1, <1>2, <1>7, <1>8 DEF ChunkIsOp, InRange, OpFirst, OpCount
<1>10. PayloadIsOp'
  BY <1>1 DEF PayloadIsOp
<1>11. AnswerIsTrue'
  <2>1. CASE pc' = "respond"
    BY <1>3, <1>8, <2>1, Staged DEF AnswerIsTrue
  <2>2. CASE pc' # "respond"
    BY <1>1, <2>2 DEF AnswerIsTrue
  <2> QED BY <2>1, <2>2
<1> QED BY <1>5, <1>6, <1>9, <1>10, <1>11 DEF SysInv, InStep

\* A payload that was refused or arrived damaged is answered with an error.
LEMMA RefuseSteps ==
  ASSUME SysInv, UNCHANGED masterVars, PayloadRefused \/ PayloadCrcMismatch
  PROVE  SysInv'
<1>1. pc \in {"pay_wait", "pay_arm"} /\ pc' = "respond" /\ disk' = disk /\ rx' = rx
      /\ queued' = queued /\ ready' = FALSE /\ usb' = usb /\ req' = req
  BY DEF PayloadRefused, PayloadCrcMismatch, Goto
<1>2. op' = op /\ mseq' = mseq /\ mpc' = mpc /\ shadow' = shadow
  BY DEF masterVars
<1>3. mpc # "idle" /\ req = HeaderOf(op, mseq) /\ ~queued
  BY DEF SysInv, InStep, ServesCurrent, Serving, PayloadRefused, PayloadCrcMismatch, Goto
<1>4. TypeOK' /\ ShadowHasOp' /\ StoreIntegrity'
  <2>1. queued \in BOOLEAN /\ usb \in Drives
    BY DEF SysInv, TypeOK, Drives
  <2> QED BY <1>1, <2>1, QuietStep
<1>5. ServesCurrent'
  BY <1>1, <1>2, <1>3 DEF ServesCurrent, Serving, HeaderOf
<1>6. ChunkIsOp' /\ PayloadIsOp'
  BY <1>1 DEF ChunkIsOp, PayloadIsOp
<1>7. resp'.hdr.status # "ESP_OK"
  BY <1>3, Staged DEF PayloadRefused, PayloadCrcMismatch
<1>8. AnswerIsTrue'
  BY <1>7 DEF AnswerIsTrue
<1> QED BY <1>4, <1>5, <1>6, <1>8 DEF SysInv, InStep

\* bd_read_blocks: the blocks staged are the ones on the drive.
LEMMA ReadStep ==
  ASSUME SysInv, UNCHANGED masterVars, ReadBlocks
  PROVE  SysInv'
<1>1. pc = "bd_read" /\ pc' = "respond" /\ disk' = disk /\ rx' = rx
      /\ queued' = queued /\ ready' = ready /\ usb' = usb /\ req' = req
  BY DEF ReadBlocks, Goto
<1>2. op' = op /\ mseq' = mseq /\ mpc' = mpc /\ shadow' = shadow
  BY DEF masterVars
<1>3. mpc # "idle" /\ req = HeaderOf(op, mseq) /\ ~queued
  BY <1>1 DEF SysInv, InStep, ServesCurrent, Serving
<1>4. TypeOK' /\ ShadowHasOp' /\ StoreIntegrity'
  <2>1. queued \in BOOLEAN /\ usb \in Drives /\ ready \in BOOLEAN
    BY DEF SysInv, TypeOK, Drives
  <2> QED BY <1>1, <2>1, QuietStep
<1>5. ServesCurrent'
  BY <1>1, <1>2, <1>3 DEF ServesCurrent, Serving, HeaderOf
<1>6. ChunkIsOp' /\ PayloadIsOp'
  BY <1>1 DEF ChunkIsOp, PayloadIsOp
<1>7. op.cmd = "Read" /\ InRange(op) /\ chunk.lba = OpFirst(op) /\ chunk.nblocks = OpCount(op)
  BY <1>1 DEF SysInv, InStep, ChunkIsOp
<1>8. AnswerIsTrue'
  <2> DEFINE b == [i \in 1..chunk.nblocks |-> disk[chunk.lba + i - 1]]
  <2>1. resp'.hdr.status = "ESP_OK" => resp'.data = b
    <3>1. \/ Stage(req, "ESP_OK", chunk.len, b, << >>)
          \/ \E e \in EspErr \ {"ESP_OK"} : Stage(req, e, 0, << >>, << >>)
      BY DEF ReadBlocks, bd_check, EspErr
    <3> HIDE DEF b
    <3> QED BY <1>3, <3>1, Staged
  <2>2. OpFirst(op) \in Int /\ OpCount(op) \in Int
    BY OpTyped DEF SysInv, TypeOK
  <2>3. ASSUME NEW l \in OpBlocks(op) PROVE b[l - OpFirst(op) + 1] = disk[l]
    <3>1. l \in OpFirst(op)..(OpFirst(op) + OpCount(op) - 1)
      BY <1>7 DEF OpBlocks
    <3>2. l - OpFirst(op) + 1 \in 1..chunk.nblocks
          /\ chunk.lba + (l - OpFirst(op) + 1) - 1 = l
      BY <1>7, <2>2, <3>1
    <3> QED BY <3>2
  <2> HIDE DEF b
  <2> QED BY <1>1, <1>2, <1>7, <2>1, <2>3 DEF AnswerIsTrue, InRange, OpFirst, OpCount, OpBlocks
<1> QED BY <1>4, <1>5, <1>6, <1>8 DEF SysInv, InStep

\* bd_write_blocks: each block keeps its content or gets the request's, and all
\* of them get it when ESP_OK is staged.
LEMMA WriteStep ==
  ASSUME SysInv, UNCHANGED masterVars, WriteBlocks
  PROVE  SysInv'
<1>1. pc = "bd_write" /\ pc' = "respond" /\ rx' = rx
      /\ queued' = queued /\ ready' = ready /\ usb' = usb /\ req' = req
  BY DEF WriteBlocks, Goto
<1>2. op' = op /\ mseq' = mseq /\ mpc' = mpc /\ shadow' = shadow
  BY DEF masterVars
<1>3. mpc # "idle" /\ req = HeaderOf(op, mseq) /\ ~queued
  BY <1>1 DEF SysInv, InStep, ServesCurrent, Serving
<1>4. op.cmd = "Write" /\ InRange(op) /\ chunk.lba = OpFirst(op) /\ chunk.nblocks = OpCount(op)
      /\ rx.data = op.data
  BY <1>1 DEF SysInv, InStep, ChunkIsOp, PayloadIsOp
<1>5. op \in Ops /\ disk \in [Lbas -> Data]
  BY DEF SysInv, TypeOK
<1>6. OpFirst(op) \in Nat /\ OpCount(op) \in Nat
  BY <1>4, <1>5, OpTyped DEF InRange
<1>7. \/ /\ disk' = Store(disk, OpFirst(op), OpCount(op), op.data)
         /\ Stage(req, "ESP_OK", chunk.len, << >>, << >>)
      \/ /\ \E k \in 0..OpCount(op) : disk' = Store(disk, OpFirst(op), k, op.data)
         /\ Stage(req, "ESP_FAIL", 0, << >>, << >>)
      \/ /\ disk' = disk
         /\ \E e \in EspErr \ {"ESP_OK"} : Stage(req, e, 0, << >>, << >>)
  BY <1>4 DEF WriteBlocks, bd_check, EspErr
<1>8. disk' \in [Lbas -> Data]
      /\ \A l \in Lbas : disk'[l] = disk[l] \/ (l \in OpBlocks(op) /\ disk'[l] = OpData(op, l))
  <2>1. CASE \E k \in 0..OpCount(op) : disk' = Store(disk, OpFirst(op), k, op.data)
    BY <1>4, <1>5, <2>1, StoreFacts
  <2>2. CASE disk' = disk
    BY <1>5, <2>2
  <2>3. OpCount(op) \in 0..OpCount(op)
    BY <1>6
  <2> QED BY <1>7, <2>1, <2>2, <2>3
<1>9. resp'.hdr.status = "ESP_OK" => \A l \in OpBlocks(op) : disk'[l] = OpData(op, l)
  <2>1. CASE disk' = Store(disk, OpFirst(op), OpCount(op), op.data)
    <3>1. OpCount(op) \in 0..OpCount(op)
      BY <1>6
    <3> QED BY <1>4, <1>5, <2>1, <3>1, StoreFacts
  <2>2. CASE \E e \in EspErr \ {"ESP_OK"} : Stage(req, e, 0, << >>, << >>)
    BY <1>3, <2>2, Staged
  <2> QED BY <1>7, <2>1, <2>2 DEF EspErr
<1>10. TypeOK'
  BY <1>1, <1>2, <1>8 DEF SysInv, TypeOK
<1>11. ServesCurrent'
  BY <1>1, <1>2, <1>3 DEF ServesCurrent, Serving, HeaderOf
<1>12. ChunkIsOp' /\ PayloadIsOp'
  BY <1>1 DEF ChunkIsOp, PayloadIsOp
<1>13. AnswerIsTrue'
  BY <1>2, <1>4, <1>9 DEF AnswerIsTrue, InRange, OpFirst, OpCount, OpBlocks, OpData
<1>14. ShadowHasOp'
  BY <1>2 DEF SysInv, InStep, ShadowHasOp, OpBlocks, OpData, InRange, OpFirst, OpCount
<1>15. StoreIntegrity'
  <2>1. \A l \in OpBlocks(op) : OpData(op, l) \in shadow[l]
    BY <1>3, <1>4 DEF SysInv, InStep, ShadowHasOp
  <2> QED BY <1>2, <1>8, <2>1 DEF SysInv, StoreIntegrity
<1> QED BY <1>10, <1>11, <1>12, <1>13, <1>14, <1>15 DEF SysInv, InStep

\* The drive coming or going between two steps of the exchange.
LEMMA UsbSteps ==
  ASSUME SysInv, UNCHANGED masterVars, UsbAttach \/ UsbDetach
  PROVE  SysInv'
<1>1. usb' \in Drives
  <2>1. OpenDrive(DriveBs, DriveLast) \in Drives
    BY DEF OpenDrive, Drives
  <2>2. OpenDrive(0, 0) \in Drives
    BY DEF OpenDrive, Drives
  <2>3. NoDrive \in Drives
    BY DEF NoDrive, Drives
  <2> QED BY <2>1, <2>2, <2>3 DEF UsbAttach, UsbDetach
<1>2. UNCHANGED <<pc, ready, queued, rx, req, chunk, resp, disk>>
  BY DEF UsbAttach, UsbDetach
<1>3. TypeOK' /\ ShadowHasOp' /\ StoreIntegrity'
  BY <1>1, <1>2, QuietStep DEF SysInv, TypeOK
<1>4. ServesCurrent' /\ ChunkIsOp' /\ PayloadIsOp' /\ AnswerIsTrue'
  BY <1>2 DEF SysInv, InStep, ServesCurrent, ChunkIsOp, PayloadIsOp, AnswerIsTrue, Serving,
     masterVars, HeaderOf, InRange, OpFirst, OpCount, OpBlocks, OpData
<1> QED BY <1>3, <1>4 DEF SysInv, InStep

-----------------------------------------------------------------------------
\* The blocks of a Write that lies inside the drive.
LEMMA OpDataTyped ==
  ASSUME NEW o \in Ops, o.cmd = "Write", NEW l \in OpBlocks(o)
  PROVE  OpData(o, l) \in Data
<1>1. InRange(o) /\ l \in OpFirst(o)..(OpFirst(o) + OpCount(o) - 1)
  BY DEF OpBlocks
<1>2. OpFirst(o) \in Nat /\ OpCount(o) \in Nat /\ OpCount(o) >= 1
  BY <1>1, OpTyped DEF InRange
<1>3. o.data \in Seq(Data) /\ Len(o.data) = OpCount(o)
  BY <1>2, OpFacts
<1>4. l - OpFirst(o) + 1 \in 1..Len(o.data)
  BY <1>1, <1>2, <1>3
<1> QED BY <1>3, <1>4 DEF OpData

\* A new request: the slave is between exchanges, so nothing refers to the old one.
LEMMA BeginStep ==
  ASSUME SysInv, NEW o \in Ops, MBegin(o)
  PROVE  SysInv'
<1>1. mpc = "idle" /\ mpc' = "header" /\ op' = o /\ mseq' = (mseq + 1) % SeqMod
      /\ UNCHANGED <<pc, ready, queued, rx, req, chunk, resp, usb, disk>>
  BY DEF MBegin
<1>2. ~Serving /\ ~(pc = "hdr_wait" /\ ~queued /\ is_valid(rx))
      /\ (queued => pc \in {"hdr_wait", "pay_wait", "rsp_wait"})
  BY <1>1 DEF SysInv, InStep, ServesCurrent
<1>3. \A l \in Lbas : shadow'[l] = IF o.cmd = "Write" /\ l \in OpBlocks(o)
                                   THEN shadow[l] \cup {OpData(o, l)} ELSE shadow[l]
  BY DEF MBegin
<1>4. shadow' \in [Lbas -> SUBSET Data]
  <2>1. shadow \in [Lbas -> SUBSET Data]
    BY DEF SysInv, TypeOK
  <2>2. ASSUME NEW l \in Lbas PROVE shadow'[l] \in SUBSET Data
    BY <1>3, <2>1, OpDataTyped
  <2>3. shadow' = [l \in Lbas |-> shadow'[l]]
    BY <2>1 DEF MBegin
  <2> QED BY <2>2, <2>3
<1>5. TypeOK'
  <2>1. mseq' \in 0..(SeqMod - 1)
    <3>1. mseq \in Nat
      BY MasterConstants DEF SysInv, TypeOK
    <3> QED BY <1>1, <3>1, MasterConstants
  <2> QED BY <1>1, <1>4, <2>1 DEF SysInv, TypeOK
<1>6. ServesCurrent' /\ ChunkIsOp' /\ PayloadIsOp' /\ AnswerIsTrue'
  BY <1>1, <1>2 DEF ServesCurrent, ChunkIsOp, PayloadIsOp, AnswerIsTrue, Serving, is_valid
<1>7. ShadowHasOp'
  <2>1. \A l \in OpBlocks(o) : l \in Lbas
    <3>1. OpFirst(o) \in Nat /\ OpCount(o) \in Int
      BY OpTyped
    <3> QED BY <3>1, DriveConstants DEF OpBlocks, InRange, Lbas
  <2> QED BY <1>1, <1>3, <2>1 DEF ShadowHasOp, OpBlocks, OpData, InRange, OpFirst, OpCount
<1>8. StoreIntegrity'
  BY <1>1, <1>3 DEF SysInv, StoreIntegrity
<1> QED BY <1>5, <1>6, <1>7, <1>8 DEF SysInv, InStep

\* Any frame of the current request (or noise), whatever the slave expects.
LEMMA TransferStep ==
  ASSUME SysInv, NEW f \in Frames, Transfer(f),
         f.kind = "hdr" => f.hdr = HeaderOf(op, mseq),
         f.kind = "data" /\ f.crc => f.data = op.data,
         mpc # "idle", mpc' \in {"header", "payload", "response"},
         UNCHANGED <<op, mseq, shadow>>
  PROVE  SysInv'
<1>1. UNCHANGED <<pc, ready, req, chunk, resp, usb, disk>> /\ queued' = FALSE
      /\ rx' = IF queued THEN f ELSE rx
  BY DEF Transfer
<1>2. TypeOK'
  BY <1>1, TransferTyped DEF SysInv, TypeOK
<1>3. ServesCurrent'
  BY <1>1 DEF SysInv, InStep, ServesCurrent, Serving, is_valid, HeaderOf
<1>4. ChunkIsOp'
  BY <1>1 DEF SysInv, InStep, ChunkIsOp, InRange, OpFirst, OpCount
<1>5. PayloadIsOp'
  BY <1>1 DEF SysInv, InStep, PayloadIsOp, ServesCurrent
<1>6. AnswerIsTrue'
  BY <1>1 DEF SysInv, InStep, AnswerIsTrue, Serving, InRange, OpFirst, OpCount, OpBlocks, OpData
<1>7. ShadowHasOp' /\ StoreIntegrity'
  BY <1>1 DEF SysInv, InStep, ShadowHasOp, StoreIntegrity, OpBlocks, OpData, InRange, OpFirst,
     OpCount
<1> QED BY <1>2, <1>3, <1>4, <1>5, <1>6, <1>7 DEF SysInv, InStep

\* The steps of the master within a request.
LEMMA ExchangeSteps ==
  ASSUME SysInv, NEW intact \in BOOLEAN,
         MHeader(intact) \/ MPayload(intact) \/ MReject(intact) \/ MTimeout
  PROVE  SysInv'
<1>1. op \in Ops /\ mseq \in 0..(SeqMod - 1)
  BY DEF SysInv, TypeOK
<1>2. Noise \in Frames /\ Noise.kind = "noise"
  BY <1>1, FramesTyped DEF Noise
<1>3. CASE MHeader(intact)
  <2>1. HdrFrame(HeaderOf(op, mseq)) \in Frames
        /\ HdrFrame(HeaderOf(op, mseq)).kind = "hdr"
        /\ HdrFrame(HeaderOf(op, mseq)).hdr = HeaderOf(op, mseq)
    BY <1>1, FramesTyped DEF HdrFrame
  <2>2. mpc # "idle" /\ mpc' \in {"header", "payload", "response"} /\ UNCHANGED <<op, mseq, shadow>>
    BY <1>3 DEF MHeader
  <2>3. CASE intact
    BY <1>3, <2>1, <2>2, <2>3, TransferStep DEF MHeader
  <2>4. CASE ~intact
    BY <1>2, <1>3, <2>2, <2>4, TransferStep DEF MHeader
  <2> QED BY <2>3, <2>4
<1>4. CASE MPayload(intact)
  <2>1. PayloadOf(op, intact) \in Frames /\ PayloadOf(op, intact).kind = "data"
        /\ (PayloadOf(op, intact).crc => PayloadOf(op, intact).data = op.data)
    BY <1>1, FramesTyped DEF PayloadOf, DataFrame
  <2> QED BY <1>4, <2>1, TransferStep DEF MPayload
<1>5. CASE MReject(intact)
  BY <1>2, <1>5, TransferStep DEF MReject
<1>6. CASE MTimeout
  <2>1. mpc # "idle" /\ mpc' = "header"
        /\ UNCHANGED <<pc, ready, queued, rx, req, chunk, resp, usb, disk, op, mseq, shadow>>
    BY <1>6 DEF MTimeout
  <2>2. TypeOK' /\ StoreIntegrity'
    BY <2>1 DEF SysInv, TypeOK, StoreIntegrity
  <2>3. InStep'
    BY <2>1 DEF SysInv, InStep, ServesCurrent, ChunkIsOp, PayloadIsOp, AnswerIsTrue, ShadowHasOp,
       Serving, HeaderOf, InRange, OpFirst, OpCount, OpBlocks, OpData
  <2> QED BY <2>2, <2>3 DEF SysInv
<1> QED BY <1>3, <1>4, <1>5, <1>6

\* An accepted response is the one staged for the current request.
LEMMA AcceptedIsStaged ==
  ASSUME MAccept
  PROVE  queued /\ pc = "rsp_wait" /\ Miso = resp
  BY DEF MAccept, Answers, Miso, NoResponse, Response, NoHeader, Header

\* An accepted response: the slave is done with the request, and the history
\* keeps only what the drive now holds.
LEMMA AcceptStep ==
  ASSUME SysInv, MAccept
  PROVE  SysInv'
<1>1. queued /\ pc = "rsp_wait" /\ Miso = resp
  BY AcceptedIsStaged
<1>2. UNCHANGED <<pc, ready, req, chunk, resp, usb, disk, op, mseq>> /\ queued' = FALSE
      /\ rx' = Noise /\ mpc' = "idle"
  BY <1>1 DEF MAccept, Transfer
<1>3. op \in Ops /\ mseq \in 0..(SeqMod - 1) /\ shadow \in [Lbas -> SUBSET Data]
  BY DEF SysInv, TypeOK
<1>4. \A l \in Lbas : shadow'[l] = IF /\ op.cmd = "Write" /\ resp.hdr.status = "ESP_OK"
                                      /\ l \in OpBlocks(op)
                                   THEN {OpData(op, l)} ELSE shadow[l]
  BY <1>1 DEF MAccept
<1>5. shadow' \in [Lbas -> SUBSET Data]
  <2>1. ASSUME NEW l \in Lbas PROVE shadow'[l] \in SUBSET Data
    BY <1>3, <1>4, OpDataTyped
  <2>2. shadow' = [l \in Lbas |-> shadow'[l]]
    BY <1>3 DEF MAccept
  <2> QED BY <2>1, <2>2
<1>6. TypeOK'
  <2>1. Noise \in Frames
    BY <1>3, FramesTyped
  <2> QED BY <1>2, <1>5, <2>1 DEF SysInv, TypeOK
<1>7. InStep'
  BY <1>1, <1>2 DEF InStep, ServesCurrent, ChunkIsOp, PayloadIsOp, AnswerIsTrue, ShadowHasOp,
     Serving
<1>8. StoreIntegrity'
  <2>1. op.cmd = "Write" /\ resp.hdr.status = "ESP_OK" =>
          \A l \in OpBlocks(op) : disk[l] = OpData(op, l)
    BY <1>1 DEF SysInv, InStep, AnswerIsTrue, Serving
  <2> QED BY <1>2, <1>4, <2>1 DEF SysInv, StoreIntegrity
<1> QED BY <1>6, <1>7, <1>8 DEF SysInv

-----------------------------------------------------------------------------
\* A master that never gives up a request keeps the invariant, whatever is lost,
\* damaged or taken for something else on the bus, and whatever the drive does.
THEOREM SysInvariance ==
  ASSUME ~GiveUp
  PROVE  Spec => []SysInv
<1>1. SysInv /\ [Next]_vars => SysInv'
  <2> SUFFICES ASSUME SysInv, [Next]_vars PROVE SysInv'
    OBVIOUS
  <2>1. CASE Slave
    BY <2>1, PhaseSteps, CommandSteps, BeginSteps, RefuseSteps, ReadStep, WriteStep
       DEF Slave, SlaveStep
  <2>2. CASE MasterStep
    BY <2>2, BeginStep, ExchangeSteps, AcceptStep DEF MasterStep, MGiveUp
  <2>3. CASE Usb
    BY <2>3, UsbSteps DEF Usb
  <2>4. CASE UNCHANGED vars
    <3>1. TypeOK' /\ StoreIntegrity'
      BY <2>4 DEF vars, SysInv, TypeOK, StoreIntegrity
    <3>2. InStep'
      BY <2>4 DEF vars, SysInv, InStep, ServesCurrent, ChunkIsOp, PayloadIsOp, AnswerIsTrue,
         ShadowHasOp, Serving, HeaderOf, InRange, OpFirst, OpCount, OpBlocks, OpData
    <3> QED BY <3>1, <3>2 DEF SysInv
  <2> QED BY <2>1, <2>2, <2>3, <2>4 DEF Next
<1> QED BY <1>1, InitInv, PTL DEF Spec

\* Every variable keeps its type.
THEOREM TypeCorrect ==
  ASSUME ~GiveUp
  PROVE  Spec => []TypeOK
<1>1. SysInv => TypeOK
  BY DEF SysInv
<1> QED BY <1>1, SysInvariance, PTL

\* Every block holds the data of the last acknowledged Write to it or of one begun
\* since: Cmd::Write of run never loses an acknowledged Write, never stores on
\* other blocks, and never stores a damaged or foreign frame.
THEOREM StoreIntegrityTheorem ==
  ASSUME ~GiveUp
  PROVE  Spec => []StoreIntegrity
<1>1. SysInv => StoreIntegrity
  BY DEF SysInv
<1> QED BY <1>1, SysInvariance, PTL

\* The slave and the master stay in step.
THEOREM InStepTheorem ==
  ASSUME ~GiveUp
  PROVE  Spec => []InStep
<1>1. SysInv => InStep
  BY DEF SysInv
<1> QED BY <1>1, SysInvariance, PTL

\* An ESP_OK the master accepts for a Read or a Write is true at that moment.
THEOREM AcksAreTrueTheorem ==
  ASSUME ~GiveUp
  PROVE  Spec => AcksAreTrue
<1> DEFINE Ack == MAccept /\ op.cmd \in {"Read", "Write"} /\ Miso.hdr.status = "ESP_OK" =>
             /\ InRange(op)
             /\ \A l \in OpBlocks(op) :
                  disk[l] = IF op.cmd = "Read" THEN Miso.data[l - OpFirst(op) + 1]
                                               ELSE OpData(op, l)
<1>1. SysInv => Ack
  <2> SUFFICES ASSUME SysInv, MAccept, op.cmd \in {"Read", "Write"}, Miso.hdr.status = "ESP_OK"
               PROVE  /\ InRange(op)
                      /\ \A l \in OpBlocks(op) :
                           disk[l] = IF op.cmd = "Read" THEN Miso.data[l - OpFirst(op) + 1]
                                                        ELSE OpData(op, l)
    OBVIOUS
  <2>1. queued /\ pc = "rsp_wait" /\ Miso = resp
    BY AcceptedIsStaged
  <2>2. AnswerIsTrue /\ Serving
    BY <2>1 DEF SysInv, InStep, Serving
  <2> HIDE DEF Serving
  <2> QED BY <2>1, <2>2 DEF AnswerIsTrue
<1>2. Spec => []SysInv
  BY SysInvariance
<1> QED BY <1>1, <1>2, PTL DEF AcksAreTrue
=============================================================================
