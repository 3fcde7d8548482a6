------------------------ MODULE SpiRefinementProofs ------------------------
(***************************************************************************)
(* The link implements the store of blocks of module BlockStore, for every *)
(* drive, payload size and set of requests, with a master that repeats its *)
(* request until it is answered.                                           *)
(***************************************************************************)
EXTENDS SpiSystemProofs

\* A step that leaves the drive, the master's request and the offer alone is
\* one the store does not see.
LEMMA Unseen ==
  ASSUME disk' = disk, StoreCall' = StoreCall, StoreOffer' = StoreOffer
  PROVE  UNCHANGED BS!svars
  BY DEF BS!svars

\* Every step of the slave but the arming of a response and the writing of
\* blocks is unseen: no response is armed before or after it.
LEMMA SlaveUnseen ==
  ASSUME Slave,
         ~(ResponseArm /\ UNCHANGED masterVars), ~(WriteBlocks /\ UNCHANGED masterVars)
  PROVE  UNCHANGED BS!svars
<1>1. UNCHANGED <<mpc, op>>
  BY DEF Slave, masterVars
<1>2. disk' = disk /\ ~(queued /\ pc = "rsp_wait") /\ ~(queued' /\ pc' = "rsp_wait")
  BY DEF Slave, SlaveStep, HeaderArm, HeaderInvalid, UnknownCmd, GetStatus, GetCapacity, Flush,
         ReadBegin, ReadBlocks, WriteBegin, PayloadArm, PayloadRefused, PayloadFailed,
         PayloadCrcMismatch, PayloadOk, ResponseRaise, ResponseDone, Goto
<1> QED BY <1>1, <1>2, Unseen DEF StoreCall, StoreOffer

\* Arming a response offers it, and what it says is true.
LEMMA ArmOffers ==
  ASSUME SysInv, ResponseArm, UNCHANGED masterVars
  PROVE  BS!Next
<1>1. UNCHANGED <<mpc, op, disk, resp>> /\ pc = "rsp_arm" /\ pc' = "rsp_wait" /\ queued'
  BY DEF ResponseArm, masterVars, Goto
<1>2. mpc # "idle" /\ AnswerIsTrue /\ Serving
  BY <1>1 DEF SysInv, InStep, ServesCurrent, Serving
<1>3. StoreCall = <<op>> /\ StoreCall' = StoreCall /\ StoreOffer = << >>
  BY <1>1, <1>2 DEF StoreCall, StoreOffer
<1>4. StoreOffer' = <<Offered>>
  BY <1>1 DEF StoreOffer, Offered, OpBlocks, OpFirst, OpCount, InRange
<1>5. BS!Truthful(op, Offered)
  <2> SUFFICES ASSUME Offered.ok, op.cmd \in {"Read", "Write"}
               PROVE  /\ OpBlocks(op) # {}
                      /\ \A l \in OpBlocks(op) :
                           disk[l] = IF op.cmd = "Read" THEN Offered.data[l] ELSE OpData(op, l)
    BY DEF BS!Truthful
  <2>1. resp.hdr.status = "ESP_OK"
    BY DEF Offered
  <2>2. /\ InRange(op)
        /\ \A l \in OpBlocks(op) :
             disk[l] = IF op.cmd = "Read" THEN resp.data[l - OpFirst(op) + 1] ELSE OpData(op, l)
    BY <1>1, <1>2, <2>1 DEF AnswerIsTrue
  <2>3. OpBlocks(op) # {}
    <3>1. op \in Ops
      BY DEF SysInv, TypeOK
    <3>2. OpFirst(op) \in Nat /\ OpCount(op) \in Int /\ OpCount(op) >= 1
      BY <2>2, <3>1, OpTyped DEF InRange
    <3> QED BY <2>2, <3>2 DEF OpBlocks
  <2>4. op.cmd = "Read" => \A l \in OpBlocks(op) : Offered.data[l] = resp.data[l - OpFirst(op) + 1]
    BY <2>1 DEF Offered
  <2> QED BY <2>2, <2>3, <2>4
<1>6. BS!Offer(Offered)
  BY <1>1, <1>3, <1>4, <1>5 DEF BS!Offer
<1> QED BY <1>4, <1>6 DEF BS!Next

\* Writing blocks touches those of the request, and gives them its data.
LEMMA WriteTouches ==
  ASSUME SysInv, WriteBlocks, UNCHANGED masterVars
  PROVE  BS!Next
<1>1. UNCHANGED <<mpc, op>> /\ pc = "bd_write" /\ pc' = "respond"
  BY DEF WriteBlocks, masterVars, Goto
<1>2. /\ mpc # "idle" /\ op.cmd = "Write" /\ InRange(op) /\ op \in Ops
      /\ chunk.lba = OpFirst(op) /\ chunk.nblocks = OpCount(op) /\ rx.data = op.data
      /\ disk \in [Lbas -> Data]
  BY <1>1 DEF SysInv, TypeOK, InStep, ServesCurrent, Serving, ChunkIsOp, PayloadIsOp
<1>3. StoreCall = <<op>> /\ StoreCall' = StoreCall /\ StoreOffer = << >> /\ StoreOffer' = << >>
  BY <1>1, <1>2 DEF StoreCall, StoreOffer
<1>4. OpCount(op) \in Nat
  BY <1>2, OpTyped DEF InRange
<1>5. \/ disk' = disk
      \/ \E n \in 0..OpCount(op) : disk' = Store(disk, OpFirst(op), n, op.data)
  BY <1>2, <1>4 DEF WriteBlocks
<1>6. /\ disk' \in [Lbas -> Data]
      /\ \A l \in Lbas : disk'[l] = disk[l] \/ (l \in OpBlocks(op) /\ disk'[l] = OpData(op, l))
  BY <1>2, <1>5, StoreFacts
<1> DEFINE some == {l \in OpBlocks(op) : l \in Lbas /\ disk'[l] = OpData(op, l)}
<1>7. disk' = [l \in Lbas |-> IF l \in some THEN OpData(op, l) ELSE disk[l]]
  BY <1>2, <1>6
<1>8. some \in SUBSET OpBlocks(op)
  OBVIOUS
<1>9. BS!Touch
  BY <1>2, <1>3, <1>7, <1>8 DEF BS!Touch
<1> QED BY <1>9 DEF BS!Next

\* A new request begins a call; no response is armed at that time.
LEMMA BeginBegins ==
  ASSUME SysInv, NEW o \in Ops, MBegin(o)
  PROVE  BS!Next
<1>1. mpc = "idle" /\ mpc' = "header" /\ op' = o /\ UNCHANGED <<pc, queued, disk>>
  BY DEF MBegin
<1>2. ~(queued /\ pc = "rsp_wait")
  BY <1>1 DEF SysInv, InStep, ServesCurrent, Serving
<1>3. StoreCall = << >> /\ StoreCall' = <<o>> /\ StoreOffer' = StoreOffer
  BY <1>1, <1>2 DEF StoreCall, StoreOffer
<1> QED BY <1>1, <1>3 DEF BS!Next, BS!Begin

\* Clocking the bus for anything but an accepted response loses the offer, if
\* there is one.
LEMMA ClockLoses ==
  ASSUME SysInv, NEW f, Transfer(f), mpc # "idle", mpc' # "idle", op' = op
  PROVE  BS!Lose \/ UNCHANGED BS!svars
<1>1. disk' = disk /\ queued' = FALSE
  BY DEF Transfer
<1>2. StoreCall' = StoreCall /\ StoreOffer' = << >>
  BY <1>1 DEF StoreCall, StoreOffer
<1>3. CASE StoreOffer = << >>
  BY <1>1, <1>2, <1>3, Unseen
<1>4. CASE StoreOffer # << >>
  BY <1>1, <1>2, <1>4 DEF BS!Lose
<1> QED BY <1>3, <1>4

\* An accepted response is an offer taken.
LEMMA AcceptTakes ==
  ASSUME SysInv, MAccept
  PROVE  BS!Next
<1>1. queued /\ pc = "rsp_wait"
  BY AcceptedIsStaged
<1>2. mpc = "response" /\ mpc' = "idle" /\ disk' = disk /\ queued' = FALSE
  BY DEF MAccept, Transfer
<1>3. StoreCall = <<op>> /\ StoreCall' = << >> /\ StoreOffer = <<Offered>> /\ StoreOffer' = << >>
  BY <1>1, <1>2 DEF StoreCall, StoreOffer
<1> QED BY <1>2, <1>3 DEF BS!Next, BS!Take

\* Slave, bus and a master that does not give up are a store of blocks that
\* touches only the blocks of the request under way and never offers an untrue
\* answer: run, with the master's repetitions, implements BlockStore.
THEOREM Refinement ==
  ASSUME ~GiveUp
  PROVE  Spec => ImplementsBlockStore
<1>1. SystemInit => BS!Init
  BY DEF SystemInit, SlaveInit, BS!Init, StoreCall, StoreOffer
<1>2. SysInv /\ [Next]_vars => [BS!Next]_(BS!svars)
  <2> SUFFICES ASSUME SysInv, [Next]_vars PROVE BS!Next \/ UNCHANGED BS!svars
    OBVIOUS
  <2>1. CASE Slave
    BY <2>1, SlaveUnseen, ArmOffers, WriteTouches
  <2>2. CASE MasterStep
    <3>1. ASSUME NEW o \in Ops, MBegin(o) PROVE BS!Next
      BY <3>1, BeginBegins
    <3>2. ASSUME NEW intact \in BOOLEAN, MHeader(intact)
          PROVE  BS!Next \/ UNCHANGED BS!svars
      <4>1. mpc # "idle" /\ mpc' # "idle" /\ op' = op
            /\ Transfer(IF intact THEN HdrFrame(HeaderOf(op, mseq)) ELSE Noise)
        BY <3>2 DEF MHeader
      <4> QED BY <4>1, ClockLoses DEF BS!Next
    <3>3. ASSUME NEW intact \in BOOLEAN, MPayload(intact)
          PROVE  BS!Next \/ UNCHANGED BS!svars
      <4>1. mpc # "idle" /\ mpc' # "idle" /\ op' = op /\ Transfer(PayloadOf(op, intact))
        BY <3>3 DEF MPayload
      <4> QED BY <4>1, ClockLoses DEF BS!Next
    <3>4. ASSUME NEW intact \in BOOLEAN, MReject(intact)
          PROVE  BS!Next \/ UNCHANGED BS!svars
      <4>1. mpc # "idle" /\ mpc' # "idle" /\ op' = op /\ Transfer(Noise)
        BY <3>4 DEF MReject
      <4> QED BY <4>1, ClockLoses DEF BS!Next
    <3>5. ASSUME MTimeout PROVE UNCHANGED BS!svars
      <4>1. mpc # "idle" /\ mpc' # "idle" /\ UNCHANGED <<op, pc, queued, resp, disk>>
        BY <3>5 DEF MTimeout
      <4>2. StoreCall' = StoreCall
        BY <4>1 DEF StoreCall
      <4>3. StoreOffer' = StoreOffer
        BY <4>1 DEF StoreOffer, Offered, OpBlocks, OpFirst, OpCount, InRange
      <4> QED BY <4>1, <4>2, <4>3, Unseen
    <3> QED BY <2>2, <3>1, <3>2, <3>3, <3>4, <3>5, AcceptTakes DEF MasterStep, MGiveUp
  <2>3. CASE Usb
    <3>1. UNCHANGED <<mpc, op, pc, queued, resp, disk>>
      BY <2>3 DEF Usb, UsbAttach, UsbDetach, masterVars
    <3>2. StoreCall' = StoreCall
      BY <3>1 DEF StoreCall
    <3>3. StoreOffer' = StoreOffer
      BY <3>1 DEF StoreOffer, Offered, OpBlocks, OpFirst, OpCount, InRange
    <3> QED BY <3>1, <3>2, <3>3, Unseen
  <2>4. CASE UNCHANGED vars
    <3>1. UNCHANGED <<mpc, op, pc, queued, resp, disk>>
      BY <2>4 DEF vars
    <3>2. StoreCall' = StoreCall
      BY <3>1 DEF StoreCall
    <3>3. StoreOffer' = StoreOffer
      BY <3>1 DEF StoreOffer, Offered, OpBlocks, OpFirst, OpCount, InRange
    <3> QED BY <3>1, <3>2, <3>3, Unseen
  <2> QED BY <2>1, <2>2, <2>3, <2>4 DEF Next
<1>3. Spec => []SysInv
  BY SysInvariance
<1> QED BY <1>1, <1>2, <1>3, PTL DEF Spec, ImplementsBlockStore, BS!Spec
=============================================================================
