----------------------------- MODULE SpiSystem -----------------------------
(***************************************************************************)
(* The SPI slave (SpiLink) composed with the master it serves, the         *)
(* bindkey-tinyesp firmware. The master is not part of this repository: it *)
(* is modelled from what the slave's code expects of it. It sends the      *)
(* header without any handshake (READY is low while the slave waits for    *)
(* one), sends a Write payload and clocks a response out when READY is     *)
(* high, takes a response for its own when command, seq and chunk index    *)
(* match, and otherwise, or on its own timeout, repeats the request.       *)
(*                                                                         *)
(* `shadow' is a history variable: the contents each block may have given  *)
(* what the master was told. A Write in progress adds its data to the      *)
(* blocks it names, an acknowledged Write leaves only its data.            *)
(***************************************************************************)
EXTENDS SpiLink

CONSTANTS
  Ops,       \* the requests the master may issue
  SeqMod,    \* modulus of the u16 sequence number
  GiveUp,    \* the master may drop a request and go on to another one
  Junk,      \* what a block damaged on the wire turns into
  Nominal    \* timing: the master reacts to READY later than the slave arms the
             \* transfer, and times out later than the slave needs to answer

VARIABLES
  mpc,       \* master: "idle", "header", "payload", "response"
  op,        \* the request it is working on
  mseq,      \* its sequence number
  shadow     \* history: the contents each block may have

masterVars == <<mpc, op, mseq, shadow>>
vars == <<pc, ready, queued, rx, req, chunk, resp, usb, disk,
          mpc, op, mseq, shadow>>

-----------------------------------------------------------------------------
(* What a request means, told in blocks and independently of compute_chunk. *)

PerFrame == MAX_PAYLOAD \div DriveBs
OpFirst(o) == o.arg0 + o.reserved * PerFrame
OpCount(o) == Smaller(PerFrame, o.arg1 - o.reserved * PerFrame)
InRange(o) == OpCount(o) >= 1 /\ OpFirst(o) + OpCount(o) <= DriveLast
OpBlocks(o) == IF InRange(o) THEN OpFirst(o)..(OpFirst(o) + OpCount(o) - 1) ELSE {}
OpData(o, l) == o.data[l - OpFirst(o) + 1]

\* A request: the fields of its header, and for a Write the blocks it carries.
IsOp(o) ==
  /\ o.cmd \in CmdByte
  /\ o.arg0 \in Nat /\ o.arg1 \in Nat /\ o.reserved \in Nat
  /\ o.arg0 + o.arg1 <= U32
  /\ o.arg1 * DriveBs < U32
  /\ o.data \in Seq(Data)
  /\ o.cmd = "Write" /\ OpCount(o) >= 1 => Len(o.data) = OpCount(o)

ASSUME MasterConstants ==
  /\ SeqMod \in Nat \ {0}
  /\ GiveUp \in BOOLEAN /\ Nominal \in BOOLEAN
  /\ Junk \in Data
  /\ \A o \in Ops : o = [cmd |-> o.cmd, arg0 |-> o.arg0, arg1 |-> o.arg1,
                         reserved |-> o.reserved, data |-> o.data]
                    /\ IsOp(o)

HeaderOf(o, s) == Header(o.cmd, s, o.reserved, o.arg0, o.arg1)
PayloadOf(o, intact) ==
  DataFrame(Len(o.data) * DriveBs,
            IF intact THEN o.data ELSE [i \in 1..Len(o.data) |-> Junk], intact)

Answers(r, o, s) ==
  r.hdr.resp /\ r.hdr.cmd = o.cmd /\ r.hdr.seq = s /\ r.hdr.reserved = o.reserved

-----------------------------------------------------------------------------
SystemInit ==
  /\ SlaveInit
  /\ mpc = "idle"
  /\ op \in Ops
  /\ mseq = 0
  /\ shadow = [l \in Lbas |-> {InitData}]

MBegin(o) ==
  /\ mpc = "idle"
  /\ mpc' = "header"
  /\ op' = o
  /\ mseq' = (mseq + 1) % SeqMod
  /\ shadow' = IF o.cmd # "Write" THEN shadow
               ELSE [l \in Lbas |-> IF l \in OpBlocks(o) THEN shadow[l] \cup {OpData(o, l)}
                                                         ELSE shadow[l]]
  /\ UNCHANGED <<pc, ready, queued, rx, req, chunk, resp, usb, disk>>

\* The header may be damaged on the wire, in a way its magic or version shows.
MHeader(intact) ==
  /\ mpc = "header"
  /\ mpc' = IF op.cmd = "Write" THEN "payload" ELSE "response"
  /\ Transfer(IF intact THEN HdrFrame(HeaderOf(op, mseq)) ELSE Noise)
  /\ UNCHANGED <<op, mseq, shadow>>

\* READY is seen high.
MSeesReady == ready /\ (Nominal => queued)

\* The payload may be damaged on the wire.
MPayload(intact) ==
  /\ mpc = "payload" /\ MSeesReady
  /\ mpc' = "response"
  /\ Transfer(PayloadOf(op, intact))
  /\ UNCHANGED <<op, mseq, shadow>>

\* The response is clocked out with arbitrary bytes on MOSI.
MAccept ==
  /\ mpc = "response" /\ MSeesReady
  /\ Answers(Miso, op, mseq)
  /\ mpc' = "idle"
  /\ shadow' = IF op.cmd = "Write" /\ Miso.hdr.status = "ESP_OK"
               THEN [l \in Lbas |-> IF l \in OpBlocks(op) THEN {OpData(op, l)}
                                                          ELSE shadow[l]]
               ELSE shadow
  /\ Transfer(Noise)
  /\ UNCHANGED <<op, mseq>>

\* Not the answer expected, or damaged on the wire, in a way the header or the
\* CRC of its payload shows: repeat the request.
MReject(intact) ==
  /\ mpc = "response" /\ MSeesReady
  /\ intact => ~Answers(Miso, op, mseq)
  /\ mpc' = "header"
  /\ Transfer(Noise)
  /\ UNCHANGED <<op, mseq, shadow>>

\* READY did not come within the master's own time limit.
MTimeout ==
  /\ mpc \in {"payload", "response"}
  /\ ~ready
  /\ Nominal => queued
  /\ mpc' = "header"
  /\ UNCHANGED <<pc, ready, queued, rx, req, chunk, resp, usb, disk,
                 op, mseq, shadow>>

\* The master stops working on this request. The next one has the next number.
MGiveUp ==
  /\ GiveUp
  /\ mpc # "idle"
  /\ mseq + 1 < SeqMod          \* bound: fewer than SeqMod dropped in a row
  /\ mpc' = "idle"
  /\ UNCHANGED <<pc, ready, queued, rx, req, chunk, resp, usb, disk,
                 op, mseq, shadow>>

MasterStep ==
  \/ \E o \in Ops : MBegin(o)
  \/ \E intact \in BOOLEAN : MHeader(intact) \/ MPayload(intact) \/ MReject(intact)
  \/ MAccept \/ MTimeout \/ MGiveUp

Slave == SlaveStep /\ UNCHANGED masterVars
Usb == (UsbAttach \/ UsbDetach) /\ UNCHANGED masterVars

Next == Slave \/ MasterStep \/ Usb

Spec == SystemInit /\ [][Next]_vars

\* The SPI task runs at priority 10 on a core of its own: every step of it is
\* eventually taken. The master is external and promises nothing.
SlaveFairSpec == Spec /\ WF_vars(Slave)

\* The master also keeps working on the request it has, and neither the wire
\* nor the peripheral driver fails every time.
LiveSpec ==
  /\ SlaveFairSpec
  /\ \A intact \in BOOLEAN : WF_vars(MHeader(intact)) /\ WF_vars(MPayload(intact))
  /\ \A intact \in BOOLEAN : WF_vars(MReject(intact))
  /\ WF_vars(MTimeout)
  /\ SF_vars(MHeader(TRUE)) /\ SF_vars(MAccept)
  /\ SF_vars(PayloadArm /\ UNCHANGED masterVars)
  /\ SF_vars(ResponseArm /\ UNCHANGED masterVars)

-----------------------------------------------------------------------------
(* Properties.                                                              *)

Frames == [kind : {"hdr", "data", "noise"},
           hdr : [cmd : CmdByte, resp : BOOLEAN, seq : 0..(SeqMod - 1), reserved : Nat,
                  arg0 : Nat, arg1 : Nat, status : EspErr],
           len : Nat, data : Seq(Data), crc : BOOLEAN]

\* Every variable has its type.
TypeOK ==
  /\ pc \in {"hdr_arm", "hdr_wait", "bd_read", "pay_arm", "pay_wait", "bd_write",
             "respond", "rsp_arm", "rsp_wait"}
  /\ ready \in BOOLEAN /\ queued \in BOOLEAN
  /\ rx \in Frames
  /\ usb \in [handle : BOOLEAN, block_size : {0, DriveBs}, block_count : {0, DriveLast}]
  /\ disk \in [Lbas -> Data]
  /\ mpc \in {"idle", "header", "payload", "response"}
  /\ op \in Ops
  /\ mseq \in 0..(SeqMod - 1)
  /\ shadow \in [Lbas -> SUBSET Data]

\* Every block holds either what the last acknowledged Write to it carried, or
\* the data of a Write that was begun since and not acknowledged: no Write is
\* acknowledged and lost, none lands on other blocks than its own, no damaged
\* or foreign frame is stored, whatever is lost, repeated or damaged on the
\* bus and whenever the drive comes and goes (Cmd::Write of run).
StoreIntegrity == \A l \in Lbas : disk[l] \in shadow[l]

\* An ESP_OK the master accepts is true at that moment: the request was inside
\* the drive, a Read returned exactly what its blocks hold, and the blocks of a
\* Write hold its data (Cmd::Read and Cmd::Write of run).
AcksAreTrue ==
  [][MAccept /\ op.cmd \in {"Read", "Write"} /\ Miso.hdr.status = "ESP_OK" =>
       /\ InRange(op)
       /\ \A l \in OpBlocks(op) :
            disk[l] = IF op.cmd = "Read" THEN Miso.data[l - OpFirst(op) + 1]
                                         ELSE OpData(op, l)]_vars

\* The slave is working on a request, up to the moment its response is clocked.
Serving ==
  \/ pc \in {"bd_read", "pay_arm", "pay_wait", "bd_write", "respond", "rsp_arm"}
  \/ pc = "rsp_wait" /\ queued

\* The request the slave serves, or is about to serve, is the master's own.
ServesCurrent ==
  /\ queued => pc \in {"hdr_wait", "pay_wait", "rsp_wait"}
  /\ Serving => mpc # "idle" /\ req = HeaderOf(op, mseq)
  /\ pc = "hdr_wait" /\ ~queued /\ is_valid(rx) =>
       mpc # "idle" /\ rx.hdr = HeaderOf(op, mseq)

\* The place it computed for the blocks is the one the request means.
ChunkIsOp ==
  /\ pc \in {"bd_read", "bd_write"} => chunk.status = "ESP_OK"
  /\ pc = "bd_read" => op.cmd = "Read"
  /\ pc \in {"pay_arm", "pay_wait", "bd_write"} => op.cmd = "Write"
  /\ pc \in {"bd_read", "pay_arm", "pay_wait", "bd_write"} /\ chunk.status = "ESP_OK" =>
       /\ InRange(op)
       /\ chunk.lba = OpFirst(op)
       /\ chunk.nblocks = OpCount(op)

\* A payload that passes the CRC is the request's data.
PayloadIsOp ==
  /\ pc = "pay_wait" /\ ~queued /\ rx.kind = "data" /\ rx.crc => rx.data = op.data
  /\ pc = "bd_write" => rx.data = op.data

\* A staged ESP_OK tells the truth about the drive.
AnswerIsTrue ==
  pc \in {"respond", "rsp_arm", "rsp_wait"} /\ Serving
  /\ op.cmd \in {"Read", "Write"} /\ resp.hdr.status = "ESP_OK" =>
    /\ InRange(op)
    /\ \A l \in OpBlocks(op) :
         disk[l] = IF op.cmd = "Read" THEN resp.data[l - OpFirst(op) + 1] ELSE OpData(op, l)

\* Whatever a Write in progress carries may be found on its blocks.
ShadowHasOp ==
  mpc # "idle" /\ op.cmd = "Write" => \A l \in OpBlocks(op) : OpData(op, l) \in shadow[l]

\* The two sides are in step (a master that does not give up): what the slave
\* decoded, placed, received and staged belongs to the request the master is
\* still repeating, although headers, payloads and responses carry no phase and
\* any of them may be lost or taken for another (run and the READY handshake).
InStep == ServesCurrent /\ ChunkIsOp /\ PayloadIsOp /\ AnswerIsTrue /\ ShadowHasOp

\* A request the master keeps repeating is eventually answered (with a result
\* or an error): after any loss, damage or failed transfer, and after requests
\* the master dropped half-way, the two sides fall back in step (the continues of
\* run and the master's repetition).
EveryRequestAnswered == mpc # "idle" ~> mpc = "idle"

\* The link seen as a store of blocks (module BlockStore): the drive is the
\* store, a request is served until its response is accepted, and a response
\* is offered from the moment it is armed until the bus is clocked.
Offered ==
  LET ok == resp.hdr.status = "ESP_OK"
  IN  [ok |-> ok,
       data |-> IF ok /\ op.cmd = "Read"
                THEN [l \in OpBlocks(op) |-> resp.data[l - OpFirst(op) + 1]]
                ELSE << >>]

StoreCall == IF mpc = "idle" THEN << >> ELSE <<op>>
StoreOffer == IF queued /\ pc = "rsp_wait" THEN <<Offered>> ELSE << >>

BS == INSTANCE BlockStore WITH
        Addr <- Lbas, Requests <- Ops, Blocks <- OpBlocks, Content <- OpData,
        store <- disk, call <- StoreCall, offer <- StoreOffer

\* Slave, bus and a master that does not give up together are such a store: run
\* and the repetitions of the master change no block but those of the request
\* under way and never offer an answer that is not true of it.
ImplementsBlockStore == BS!Spec

\* The blocks a Write stores are the payload of that very request, as
\* protocol.rs says of a WRITE request ("data bytes (nblocks * block_size)").
StoresOwnPayload ==
  [][disk' # disk =>
       \E o \in Ops : o.cmd = "Write" /\ HeaderOf(o, req.seq) = req /\ rx.data = o.data]_vars

\* GetCapacity reports the number of blocks of the drive, as protocol.rs says of
\* its payload ("u32 block_count (LE)").
CapacityIsBlockCount ==
  pc = "rsp_wait" /\ resp.hdr.cmd = "GetCapacity" /\ resp.hdr.status = "ESP_OK" =>
    resp.info = <<DriveBs, Cardinality(Lbas)>>
=============================================================================
